---- MODULE Spec2Model ----
(***************************************************************************)
(* Model of app.py: the ingest-and-query layer of the contract 30-minute   *)
(* data viewer.  The durable store is the SQLite file at DB_PATH with the  *)
(* tables files, contracts and readings; every call of get_conn() opens a  *)
(* new connection to the file that is at DB_PATH at that moment.  Browser  *)
(* sessions run the script concurrently, one thread each.                  *)
(*                                                                         *)
(* Text that the code compares, sorts or searches (column labels, sheet    *)
(* names, date strings) is a sequence of character codes, so that          *)
(* ":" in str(c), strptime, strftime and ORDER BY are computed.            *)
(* kWh values are integers (float(r.kwh) is exact on them).                *)
(* A statement of a connection is one step, and so is a commit: no         *)
(* statement waits for a commit longer than SQLite's busy timeout.  A      *)
(* write that finds the lock of another connection's transaction waits or  *)
(* raises.                                                                 *)
(* The column ingested_at of files is left out: no code reads it.          *)
(***************************************************************************)
EXTENDS Integers, Sequences, FiniteSets, TLC

(***************************************************************************)
(* Text helpers                                                            *)
(***************************************************************************)
IsDigit(c) == c >= 48 /\ c <= 57

AllDigits(s) == \A i \in 1..Len(s) : IsDigit(s[i])

\* str(n) for a natural number n
RECURSIVE Digits(_)
Digits(n) == IF n < 10 THEN <<48 + n>> ELSE Append(Digits(n \div 10), 48 + (n % 10))

\* int(s) for a string of digits
RECURSIVE ToInt(_)
ToInt(s) == IF Len(s) = 0 THEN 0
            ELSE 10 * ToInt(SubSeq(s, 1, Len(s) - 1)) + (s[Len(s)] - 48)

\* zero-padded decimal of width w (the %Y, %m, %d of strftime)
RECURSIVE Pad(_, _)
Pad(n, w) == IF w = 0 THEN <<>> ELSE Append(Pad(n \div 10, w - 1), 48 + (n % 10))

\* s < t in the byte order SQLite's BINARY collation sorts TEXT by
RECURSIVE StrLess(_, _)
StrLess(s, t) ==
    IF Len(t) = 0 THEN FALSE
    ELSE IF Len(s) = 0 THEN TRUE
    ELSE IF s[1] # t[1] THEN s[1] < t[1]
    ELSE StrLess(Tail(s), Tail(t))

\* the elements of a finite set of strings, ascending (ORDER BY on a TEXT column)
RECURSIVE SortStr(_)
SortStr(S) ==
    IF S = {} THEN <<>>
    ELSE LET m == CHOOSE x \in S : \A y \in S \ {x} : StrLess(x, y)
         IN  <<m>> \o SortStr(S \ {m})

(***************************************************************************)
(* Workbooks.  A cell is [k, v]: a number ("num"), a text ("str") or an    *)
(* empty cell ("nan").  A sheet has a name, its column labels and its rows *)
(* (one cell per column); bad marks a sheet pd.read_excel cannot read.     *)
(***************************************************************************)
Num(n) == [k |-> "num", v |-> n]
Txt(s) == [k |-> "str", v |-> s]
NaN == [k |-> "nan", v |-> 0]

DateCol == <<24180, 26376, 26085>>             \* the label of the date column
T0000 == <<48, 48, 58, 48, 48, 58, 48, 48>>    \* "00:00:00"
T0030 == <<48, 48, 58, 51, 48, 58, 48, 48>>    \* "00:30:00"
Memo == <<109, 101, 109, 111>>                 \* "memo"
NameA == <<65>>
NameB == <<66>>
NameC == <<67>>
NameD == <<68>>

\* W1: one sheet; columns out of time order, rows out of date order, a
\* non-numeric value, an impossible date, and the date 2023-01-15 twice.
Wb1 == [valid |-> TRUE, sheets |-> <<
          [name |-> NameA, bad |-> FALSE,
           cols |-> <<DateCol, T0030, Memo, T0000>>,
           rows |-> << <<Num(20230116), Txt(<<120>>), Txt(<<120>>), Num(15)>>,
                       <<Num(20230115), Num(20), NaN, Num(10)>>,
                       <<Num(20230230), Num(77), NaN, Num(78)>>,
                       <<Num(20230115), Num(40), NaN, Num(11)>> >>] >>]

\* W2: a sheet without the date column, then a sheet that repeats a triple
\* of W1 with another value.
Wb2 == [valid |-> TRUE, sheets |-> <<
          [name |-> NameB, bad |-> FALSE,
           cols |-> <<T0000>>,
           rows |-> << <<Num(5)>> >>],
          [name |-> NameA, bad |-> FALSE,
           cols |-> <<DateCol, T0000>>,
           rows |-> << <<Txt(<<50, 48, 50, 51, 48, 49, 49, 54>>), Num(30)>> >>] >>]

\* W3: bytes that are not a workbook.
Wb3 == [valid |-> FALSE, sheets |-> <<>>]

\* W4: a good sheet followed by one that cannot be read.
Wb4 == [valid |-> TRUE, sheets |-> <<
          [name |-> NameC, bad |-> FALSE,
           cols |-> <<DateCol, T0000>>,
           rows |-> << <<Num(20230115), Num(7)>> >>],
          [name |-> NameD, bad |-> TRUE, cols |-> <<>>, rows |-> <<>>] >>]

\* W5: no sheet yields a reading: one has no time-slot column, the other
\* has an empty date cell (the column is read as float64).
Wb5 == [valid |-> TRUE, sheets |-> <<
          [name |-> NameB, bad |-> FALSE,
           cols |-> <<DateCol, Memo>>,
           rows |-> << <<Num(20230115), Txt(<<120>>)>> >>],
          [name |-> NameA, bad |-> FALSE,
           cols |-> <<DateCol, T0000>>,
           rows |-> << <<NaN, Num(1)>>, <<Num(20230116), Num(2)>> >>] >>]

\* W6: one sheet of another contract, with a date and a time slot that W1
\* has too.
Wb6 == [valid |-> TRUE, sheets |-> <<
          [name |-> NameC, bad |-> FALSE,
           cols |-> <<DateCol, T0000>>,
           rows |-> << <<Num(20230115), Num(9)>> >>] >>]

Workbooks == <<Wb1, Wb2, Wb3, Wb4, Wb5, Wb6>>
Bytes == DOMAIN Workbooks
Names == {"n1", "n2"}

\* hashlib.sha256(file_bytes).hexdigest(): distinct bytes, distinct digests
file_sha256(b) == <<"sha", b>>

(***************************************************************************)
(* insert_readings: the rows it hands to executemany                       *)
(***************************************************************************)
\* the position of label c in cols, 0 when absent
ColIndex(cols, c) ==
    IF \E i \in 1..Len(cols) : cols[i] = c
    THEN CHOOSE i \in 1..Len(cols) : cols[i] = c /\ \A j \in 1..(i - 1) : cols[j] # c
    ELSE 0

\* df["年月日"].astype(str): the dtype pandas gave the column decides
AsTypeStr(cell, column) ==
    LET kinds == {column[i].k : i \in 1..Len(column)}
    IN  IF "str" \in kinds                       \* object: str() of each cell
        THEN CASE cell.k = "num" -> Digits(cell.v)
               [] cell.k = "str" -> cell.v
               [] OTHER -> <<110, 97, 110>>
        ELSE IF "nan" \in kinds                  \* float64
        THEN CASE cell.k = "num" -> Digits(cell.v) \o <<46, 48>>
               [] OTHER -> <<110, 97, 110>>
        ELSE Digits(cell.v)                      \* int64

IsLeap(y) == (y % 4 = 0 /\ y % 100 # 0) \/ y % 400 = 0

DaysIn(y, m) ==
    IF m = 2 THEN (IF IsLeap(y) THEN 29 ELSE 28)
    ELSE IF m \in {4, 6, 9, 11} THEN 30 ELSE 31

NaT == <<>>

\* pd.to_datetime(s, format="%Y%m%d", errors="coerce") on an 8-character s
ToDatetime(s) ==
    IF Len(s) = 8 /\ AllDigits(s)
    THEN LET y == ToInt(SubSeq(s, 1, 4))
             m == ToInt(SubSeq(s, 5, 6))
             d == ToInt(SubSeq(s, 7, 8))
         IN  IF y >= 1678 /\ y <= 2261 /\ m >= 1 /\ m <= 12 /\ d >= 1 /\ d <= DaysIn(y, m)
             THEN <<y, m, d>> ELSE NaT
    ELSE NaT

\* mutant of Strftime: "%Y-%d-%m"
StrftimeDayFirst(t) == Pad(t[1], 4) \o <<45>> \o Pad(t[3], 2) \o <<45>> \o Pad(t[2], 2)

\* .dt.strftime("%Y-%m-%d")
Strftime(t) == Pad(t[1], 4) \o <<45>> \o Pad(t[2], 2) \o <<45>> \o Pad(t[3], 2)

\* mutant of ToNumeric: fillna(1.0)
ToNumericFillOne(cell) ==
    CASE cell.k = "num" -> cell.v
      [] cell.k = "str" /\ Len(cell.v) > 0 /\ AllDigits(cell.v) -> ToInt(cell.v)
      [] OTHER -> 1

\* pd.to_numeric(x, errors="coerce").fillna(0.0)
ToNumeric(cell) ==
    CASE cell.k = "num" -> cell.v
      [] cell.k = "str" /\ Len(cell.v) > 0 /\ AllDigits(cell.v) -> ToInt(cell.v)
      [] OTHER -> 0

\* time_cols = [c for c in df.columns if ":" in str(c)], as column positions
TimeCols(cols) ==
    LET RECURSIVE Pick(_)
        Pick(i) == IF i > Len(cols) THEN <<>>
                   ELSE IF \E j \in 1..Len(cols[i]) : cols[i][j] = 58
                        THEN <<i>> \o Pick(i + 1) ELSE Pick(i + 1)
    IN  Pick(1)

\* the rows kept by dropna, as row positions in sheet order
ValidRows(sheet) ==
    LET dc == ColIndex(sheet.cols, DateCol)
        column == [i \in 1..Len(sheet.rows) |-> sheet.rows[i][dc]]
        RECURSIVE Keep(_)
        Keep(i) == IF i > Len(sheet.rows) THEN <<>>
                   ELSE IF ToDatetime(AsTypeStr(column[i], column)) # NaT
                        THEN <<i>> \o Keep(i + 1) ELSE Keep(i + 1)
    IN  Keep(1)

\* the parameter list of executemany: melt goes column by column, and
\* within a column row by row
LongRows(contract_id, sheet) ==
    IF ColIndex(sheet.cols, DateCol) = 0 THEN <<>>
    ELSE LET dc == ColIndex(sheet.cols, DateCol)
             column == [i \in 1..Len(sheet.rows) |-> sheet.rows[i][dc]]
             tc == TimeCols(sheet.cols)
             vr == ValidRows(sheet)
             nr == Len(vr)
         IN  IF Len(tc) = 0 THEN <<>>
             ELSE [k \in 1..(Len(tc) * nr) |->
                    LET c == tc[((k - 1) \div nr) + 1]
                        r == vr[((k - 1) % nr) + 1]
                    IN  [contract_id |-> contract_id,
                         ymd |-> Strftime(ToDatetime(AsTypeStr(column[r], column))),
                         time |-> sheet.cols[c],
                         kwh |-> ToNumeric(sheet.rows[r][c])]]

(***************************************************************************)
(* The SQLite database file: the three tables of init_db and the           *)
(* AUTOINCREMENT counters kept in sqlite_sequence.                         *)
(***************************************************************************)
EmptyDb == [tables |-> FALSE, files |-> {}, contracts |-> {}, readings |-> {},
            seqF |-> 0, seqC |-> 0]

\* mutant of init_db: the tables are dropped and created again
InitDbRecreates(db) == [tables |-> TRUE, files |-> {}, contracts |-> {}, readings |-> {},
                        seqF |-> 0, seqC |-> 0]

\* CREATE TABLE IF NOT EXISTS files / contracts / readings
init_db(db) == IF db.tables THEN db ELSE [db EXCEPT !.tables = TRUE]

\* mutant of FileRows: the lookup is given the digest of no bytes
FileRowsOfNothing(db, sha) == {f \in db.files : f.sha256 = file_sha256(0)}

\* SELECT id FROM files WHERE sha256=?
FileRows(db, sha) == {f \in db.files : f.sha256 = sha}

\* SELECT id FROM contracts WHERE contract_no=?
ContractRows(db, contract_no) == {c \in db.contracts : c.contract_no = contract_no}

\* mutant of InsertContract: the key returned is not the key of the new row
InsertContractOtherKey(db, contract_no) ==
    IF \E c \in db.contracts : c.contract_no = contract_no
    THEN [ok |-> FALSE, db |-> db, id |-> 0]
    ELSE [ok |-> TRUE, id |-> db.seqC + 2,
          db |-> [db EXCEPT !.seqC = @ + 1,
                            !.contracts = @ \cup {[id |-> db.seqC + 1,
                                                   contract_no |-> contract_no]}]]

\* mutant of InsertContract: contract_no is not declared UNIQUE
InsertContractNotUnique(db, contract_no) ==
    [ok |-> TRUE, id |-> db.seqC + 1,
     db |-> [db EXCEPT !.seqC = @ + 1,
                       !.contracts = @ \cup {[id |-> db.seqC + 1,
                                              contract_no |-> contract_no]}]]

\* INSERT INTO contracts(contract_no) VALUES (?); ok is FALSE when the
\* UNIQUE constraint on contract_no rejects the row (IntegrityError)
InsertContract(db, contract_no) ==
    IF \E c \in db.contracts : c.contract_no = contract_no
    THEN [ok |-> FALSE, db |-> db, id |-> 0]
    ELSE [ok |-> TRUE, id |-> db.seqC + 1,
          db |-> [db EXCEPT !.seqC = @ + 1,
                            !.contracts = @ \cup {[id |-> db.seqC + 1,
                                                   contract_no |-> contract_no]}]]

\* mutant of Upsert: ON CONFLICT(ymd, time)
UpsertAnyContract(readings, row) ==
    {r \in readings : ~(r.ymd = row.ymd /\ r.time = row.time)} \cup {row}

\* mutant of Upsert: the readings of the contract are deleted first
UpsertReplacesContract(readings, row) ==
    {r \in readings : r.contract_id # row.contract_id} \cup {row}

\* mutant of Upsert: ON CONFLICT ... DO NOTHING
UpsertKeepsOld(readings, row) ==
    IF \E r \in readings : r.contract_id = row.contract_id
                           /\ r.ymd = row.ymd /\ r.time = row.time
    THEN readings ELSE readings \cup {row}

\* INSERT INTO readings ... ON CONFLICT(contract_id, ymd, time)
\* DO UPDATE SET kwh=excluded.kwh, for one parameter row
Upsert(readings, row) ==
    LET hit == {r \in readings : r.contract_id = row.contract_id
                                 /\ r.ymd = row.ymd /\ r.time = row.time}
    IN  (readings \ hit) \cup {row}

\* mutant of UpsertAll: the rows from the last to the first
RECURSIVE UpsertAllBackwards(_, _)
UpsertAllBackwards(readings, rows) ==
    IF Len(rows) = 0 THEN readings
    ELSE UpsertAllBackwards(Upsert(readings, rows[Len(rows)]),
                            SubSeq(rows, 1, Len(rows) - 1))

\* executemany: the rows in order
RECURSIVE UpsertAll(_, _)
UpsertAll(readings, rows) ==
    IF Len(rows) = 0 THEN readings
    ELSE UpsertAll(Upsert(readings, Head(rows)), Tail(rows))

\* mutant of InsertFile: no ledger entry when the database has no reading
InsertFileIfReadings(db, name, sha) ==
    IF \E f \in db.files : f.sha256 = sha
    THEN [ok |-> FALSE, db |-> db]
    ELSE IF db.readings = {}
    THEN [ok |-> TRUE, db |-> db]
    ELSE [ok |-> TRUE,
          db |-> [db EXCEPT !.seqF = @ + 1,
                            !.files = @ \cup {[id |-> db.seqF + 1, name |-> name,
                                               sha256 |-> sha]}]]

\* mutant of InsertFile: sha256 is not declared UNIQUE
InsertFileNotUnique(db, name, sha) ==
    [ok |-> TRUE,
     db |-> [db EXCEPT !.seqF = @ + 1,
                       !.files = @ \cup {[id |-> db.seqF + 1, name |-> name,
                                          sha256 |-> sha]}]]

\* INSERT INTO files(name, sha256) VALUES (?, ?); ok is FALSE when the
\* UNIQUE constraint on sha256 rejects the row (IntegrityError)
InsertFile(db, name, sha) ==
    IF \E f \in db.files : f.sha256 = sha
    THEN [ok |-> FALSE, db |-> db]
    ELSE [ok |-> TRUE,
          db |-> [db EXCEPT !.seqF = @ + 1,
                            !.files = @ \cup {[id |-> db.seqF + 1, name |-> name,
                                               sha256 |-> sha]}]]

\* ORDER BY on a TEXT column: S holds <<key, row>> pairs; the rows come
\* out ascending by key
RECURSIVE OrderBy(_)
OrderBy(S) ==
    IF S = {} THEN <<>>
    ELSE LET m == CHOOSE x \in S : \A y \in S : ~StrLess(y[1], x[1])
         IN  <<m[2]>> \o OrderBy(S \ {m})

\* SELECT id, contract_no FROM contracts ORDER BY contract_no
SelectContracts(db) == OrderBy({<<c.contract_no, c>> : c \in db.contracts})

\* SELECT DISTINCT ymd FROM readings WHERE contract_id=? ORDER BY ymd
SelectDates(db, contract_id) ==
    SortStr({r.ymd : r \in {x \in db.readings : x.contract_id = contract_id}})

\* SELECT time, kwh FROM readings WHERE contract_id=? AND ymd=? ORDER BY time
SelectSeries(db, contract_id, ymd) ==
    OrderBy({<<r.time, r>> : r \in {x \in db.readings :
                                      x.contract_id = contract_id /\ x.ymd = ymd}})

(***************************************************************************)
(* The program: browser sessions running the script                        *)
(***************************************************************************)
MaxUploads == 2     \* ingest calls in one behaviour
MaxResets == 1      \* uses of "Clear ALL data" in one behaviour

Sessions == {1, 2}
Inodes == 1..(MaxResets + 1)

VARIABLES
    path,       \* the file at DB_PATH: 0 when there is none, else its inode
    resets,     \* how often DB_PATH was removed; a file made now is inode resets + 1
    store,      \* store[i]: the committed content of inode i
    conn,       \* conn[s]: the connection ingest_excel_to_db holds in session s
    pc,         \* pc[s]: where session s is in the script
    upl,        \* upl[s]: file_bytes and file_name of the running ingest
    idx,        \* idx[s]: the position of `sheet` in xl.sheet_names
    cid,        \* cid[s]: what ensure_contract returned
    sel,        \* sel[s]: sel_contract["id"] and day_sel
    out,        \* out[s]: how the last call of session s ended
    uploads,    \* ingest calls so far
    ingested,   \* history: the (bytes, name) of ingests that returned Ingested
                \* and committed into the file still at DB_PATH
    latest,     \* history: contract_no, ymd, time, kwh as supplied by the most
                \* recent such ingest that contained the triple
    dup         \* history: dup[s] iff the running ingest of s began after an
                \* ingest of the same bytes returned Ingested, with no reset since

vars == <<path, resets, store, conn, pc, upl, idx, cid, sel, out, uploads,
          ingested, latest, dup>>

NoConn == [ino |-> 0, tx |-> FALSE, work |-> EmptyDb]
NoUpload == [bytes |-> 0, name |-> ""]
NoSel == [id |-> 0, day |-> <<>>]
NoOut == [op |-> "", res |-> "", val |-> <<>>]

\* sqlite3.connect(DB_PATH) creates an empty file when there is none
get_conn(st) == IF path = 0 THEN [st EXCEPT ![resets + 1] = EmptyDb] ELSE st

\* a removed file is gone once no connection has it open
Unlinked(st, cn, pth) ==
    [i \in DOMAIN st |->
        IF i # pth /\ \A s \in Sessions : cn[s].ino # i THEN EmptyDb ELSE st[i]]

\* what the statements of session s read: its own uncommitted writes once it
\* has written, else the committed content of the file it has open
View(s) == IF conn[s].tx THEN conn[s].work ELSE store[conn[s].ino]

\* mutant of Committed: the writes of an open transaction are read too
ReadUncommitted(i) ==
    IF \E q \in Sessions : conn[q].ino = i /\ conn[q].tx
    THEN conn[CHOOSE q \in Sessions : conn[q].ino = i /\ conn[q].tx].work
    ELSE store[i]

\* what a connection of another thread reads of inode i: its committed content
Committed(i) == store[i]

\* mutant of LockFree: writers do not exclude each other
NoLock(s) == TRUE

\* a write statement takes the RESERVED lock of the file; one connection
\* holds it from its first write to its commit or rollback
LockFree(s) ==
    \A q \in Sessions \ {s} : ~(conn[q].ino = conn[s].ino /\ conn[q].tx)

\* For the history variables, what each workbook of the catalogue holds,
\* written out by hand and not computed by the operators above: the readings
\* an ingest of it supplies (contract_no, ymd, time, kwh) and its sheet names.
D15 == <<50, 48, 50, 51, 45, 48, 49, 45, 49, 53>>    \* "2023-01-15"
D16 == <<50, 48, 50, 51, 45, 48, 49, 45, 49, 54>>    \* "2023-01-16"
Supplied(b) ==
    CASE b = 1 -> {[contract_no |-> NameA, ymd |-> D15, time |-> T0000, kwh |-> 11],
                   [contract_no |-> NameA, ymd |-> D15, time |-> T0030, kwh |-> 40],
                   [contract_no |-> NameA, ymd |-> D16, time |-> T0000, kwh |-> 15],
                   [contract_no |-> NameA, ymd |-> D16, time |-> T0030, kwh |-> 0]}
      [] b = 2 -> {[contract_no |-> NameA, ymd |-> D16, time |-> T0000, kwh |-> 30]}
      [] b = 4 -> {[contract_no |-> NameC, ymd |-> D15, time |-> T0000, kwh |-> 7]}
      [] b = 6 -> {[contract_no |-> NameC, ymd |-> D15, time |-> T0000, kwh |-> 9]}
      [] OTHER -> {}
SheetNames(b) == CASE b = 1 -> {NameA}
                   [] b = 2 -> {NameA, NameB}
                   [] b = 4 -> {NameC, NameD}
                   [] b = 5 -> {NameA, NameB}
                   [] b = 6 -> {NameC}
                   [] OTHER -> {}

SameTriple(x, y) == x.contract_no = y.contract_no /\ x.ymd = y.ymd /\ x.time = y.time

Init ==
    /\ path = 0
    /\ resets = 0
    /\ store = [i \in Inodes |-> EmptyDb]
    /\ conn = [s \in Sessions |-> NoConn]
    /\ pc = [s \in Sessions |-> "idle"]
    /\ upl = [s \in Sessions |-> NoUpload]
    /\ idx = [s \in Sessions |-> 0]
    /\ cid = [s \in Sessions |-> 0]
    /\ sel = [s \in Sessions |-> NoSel]
    /\ out = [s \in Sessions |-> NoOut]
    /\ uploads = 0
    /\ ingested = {}
    /\ latest = {}
    /\ dup = [s \in Sessions |-> FALSE]

\* The code stores the name and never reads it; a name matters only beside
\* another name for the same bytes.  So bytes that are neither recorded in
\* the store nor being ingested are uploaded as n1, other bytes under either
\* name.
UploadNames(b) ==
    IF \E r \in ingested : r.bytes = b THEN Names
    ELSE IF \E q \in Sessions : upl[q].bytes = b THEN Names
    ELSE {"n1"}

\* a script run starts with an uploaded file (or the sample button pressed):
\* ingest_excel_to_db(file_bytes, name) is called
Upload(s) ==
    /\ pc[s] = "idle"
    /\ uploads < MaxUploads
    /\ \E b \in Bytes : \E n \in UploadNames(b) :
          /\ upl' = [upl EXCEPT ![s] = [bytes |-> b, name |-> n]]
          /\ dup' = [dup EXCEPT ![s] = \E r \in ingested : r.bytes = b]
    /\ uploads' = uploads + 1
    /\ pc' = [pc EXCEPT ![s] = "init_db"]
    /\ out' = [out EXCEPT ![s] = NoOut]
    /\ UNCHANGED <<path, resets, store, conn, idx, cid, sel, ingested, latest>>

\* a script run starts with no upload
NoFile(s) ==
    /\ pc[s] = "idle"
    /\ pc' = [pc EXCEPT ![s] = "list_contracts"]
    /\ out' = [out EXCEPT ![s] = NoOut]
    /\ UNCHANGED <<path, resets, store, conn, upl, idx, cid, sel, uploads,
                   ingested, latest, dup>>

\* ingest_excel_to_db, line 72: init_db()
IngestInitDb(s) ==
    /\ pc[s] = "init_db"
    /\ store' = [get_conn(store) EXCEPT ![resets + 1] = init_db(@)]
    /\ path' = resets + 1
    /\ pc' = [pc EXCEPT ![s] = "get_conn"]
    /\ UNCHANGED <<resets, conn, upl, idx, cid, sel, out, uploads, ingested,
                   latest, dup>>

\* line 74: with get_conn() as con
IngestConnect(s) ==
    /\ pc[s] = "get_conn"
    /\ store' = get_conn(store)
    /\ path' = resets + 1
    /\ conn' = [conn EXCEPT ![s] = [ino |-> resets + 1, tx |-> FALSE, work |-> EmptyDb]]
    /\ pc' = [pc EXCEPT ![s] = "gate"]
    /\ UNCHANGED <<resets, upl, idx, cid, sel, out, uploads, ingested, latest, dup>>

\* how an ingest call ends: the connection is dropped and the locals with it.
\* overlap records that the ingest of other bytes by another session was
\* past its gate, on the same file, when this call ended.
IngestOut(s, res, err) ==
    [op |-> "ingest", res |-> res,
     val |-> [bytes |-> upl[s].bytes, name |-> upl[s].name, err |-> err,
              wrote |-> conn[s].tx, atPath |-> conn[s].ino = path,
              dup |-> dup[s],
              overlap |-> \E q \in Sessions \ {s} :
                             /\ pc[q] \in {"sheet", "insert_contract", "insert_readings",
                                           "record"}
                             /\ conn[q].ino = conn[s].ino
                             /\ upl[q].bytes # upl[s].bytes]]

\* mutant of Rollback: the writes made so far are committed
RollbackCommits(s, err) ==
    /\ conn' = [conn EXCEPT ![s] = NoConn]
    /\ store' = Unlinked([store EXCEPT ![conn[s].ino] = View(s)], conn', path)
    /\ out' = [out EXCEPT ![s] = IngestOut(s, "Raised", err)]
    /\ pc' = [pc EXCEPT ![s] = "idle"]
    /\ upl' = [upl EXCEPT ![s] = NoUpload]
    /\ idx' = [idx EXCEPT ![s] = 0]
    /\ cid' = [cid EXCEPT ![s] = 0]
    /\ dup' = [dup EXCEPT ![s] = FALSE]
    /\ UNCHANGED <<path, resets, sel, uploads, ingested, latest>>

\* an exception leaves the with block: the connection rolls back and the
\* exception goes on to the script, which ends there
Rollback(s, err) ==
    /\ conn' = [conn EXCEPT ![s] = NoConn]
    /\ store' = Unlinked(store, conn', path)
    /\ out' = [out EXCEPT ![s] = IngestOut(s, "Raised", err)]
    /\ pc' = [pc EXCEPT ![s] = "idle"]
    /\ upl' = [upl EXCEPT ![s] = NoUpload]
    /\ idx' = [idx EXCEPT ![s] = 0]
    /\ cid' = [cid EXCEPT ![s] = 0]
    /\ dup' = [dup EXCEPT ![s] = FALSE]
    /\ UNCHANGED <<path, resets, sel, uploads, ingested, latest>>

\* lines 75-79: the lookup of the digest, then pd.ExcelFile
Gate(s) ==
    /\ pc[s] = "gate"
    /\ IF ~View(s).tables
       THEN Rollback(s, "OperationalError: no such table: files")
       ELSE IF FileRows(View(s), file_sha256(upl[s].bytes)) # {}
       THEN /\ conn' = [conn EXCEPT ![s] = NoConn]
            /\ store' = Unlinked(store, conn', path)
            /\ out' = [out EXCEPT ![s] = IngestOut(s, "Skipped", "")]
            /\ pc' = [pc EXCEPT ![s] = "list_contracts"]
            /\ upl' = [upl EXCEPT ![s] = NoUpload]
            /\ dup' = [dup EXCEPT ![s] = FALSE]
            /\ UNCHANGED <<path, resets, idx, cid, sel, uploads, ingested, latest>>
       ELSE IF ~Workbooks[upl[s].bytes].valid
       THEN Rollback(s, "ValueError: not a workbook")
       ELSE /\ idx' = [idx EXCEPT ![s] = 1]
            /\ pc' = [pc EXCEPT ![s] = "sheet"]
            /\ UNCHANGED <<path, resets, store, conn, upl, cid, sel, out, uploads,
                           ingested, latest, dup>>

\* the sheet the for loop of line 80 is at
Sheet(s) == Workbooks[upl[s].bytes].sheets[idx[s]]

\* lines 81-82 and 47-49: pd.read_excel of the sheet, then the SELECT of
\* ensure_contract
ReadSheet(s) ==
    /\ pc[s] = "sheet"
    /\ IF Sheet(s).bad
       THEN Rollback(s, "ValueError: unreadable sheet")
       ELSE /\ IF ContractRows(View(s), Sheet(s).name) # {}
               THEN /\ cid' = [cid EXCEPT ![s] =
                                (CHOOSE c \in ContractRows(View(s), Sheet(s).name) : TRUE).id]
                    /\ pc' = [pc EXCEPT ![s] = "insert_readings"]
               ELSE /\ pc' = [pc EXCEPT ![s] = "insert_contract"]
                    /\ UNCHANGED cid
            /\ UNCHANGED <<path, resets, store, conn, upl, idx, sel, out, uploads,
                           ingested, latest, dup>>

\* the first write of a connection opens its transaction on the content of
\* the file as it is then
Written(s, db) == [conn EXCEPT ![s] = [ino |-> conn[s].ino, tx |-> TRUE, work |-> db]]

\* lines 50-51: the INSERT of ensure_contract
EnsureInsert(s) ==
    /\ pc[s] = "insert_contract"
    /\ LockFree(s)
    /\ LET r == InsertContract(View(s), Sheet(s).name)
       IN  IF ~r.ok
           THEN Rollback(s, "IntegrityError: UNIQUE constraint failed: contracts.contract_no")
           ELSE /\ conn' = Written(s, r.db)
                /\ cid' = [cid EXCEPT ![s] = r.id]
                /\ pc' = [pc EXCEPT ![s] = "insert_readings"]
                /\ UNCHANGED <<path, resets, store, upl, idx, sel, out, uploads,
                               ingested, latest, dup>>

\* mutant of InsertReadings: a sheet without rows ends the loop
InsertReadingsBreaks(s) ==
    /\ pc[s] = "insert_readings"
    /\ LET rows == LongRows(cid[s], Sheet(s))
       IN  /\ Len(rows) > 0 => LockFree(s)
           /\ conn' = IF Len(rows) > 0
                      THEN Written(s, [View(s) EXCEPT !.readings = UpsertAll(@, rows)])
                      ELSE conn
           /\ IF idx[s] < Len(Workbooks[upl[s].bytes].sheets) /\ Len(rows) > 0
              THEN /\ idx' = [idx EXCEPT ![s] = @ + 1]
                   /\ pc' = [pc EXCEPT ![s] = "sheet"]
              ELSE /\ idx' = [idx EXCEPT ![s] = 0]
                   /\ pc' = [pc EXCEPT ![s] = "record"]
    /\ cid' = [cid EXCEPT ![s] = 0]
    /\ UNCHANGED <<path, resets, store, upl, sel, out, uploads, ingested, latest, dup>>

\* line 83: insert_readings(con, cid, df), then the next sheet or the end of
\* the loop.  Without rows no statement runs and no lock is taken.
InsertReadings(s) ==
    /\ pc[s] = "insert_readings"
    /\ LET rows == LongRows(cid[s], Sheet(s))
       IN  /\ Len(rows) > 0 => LockFree(s)
           /\ conn' = IF Len(rows) > 0
                      THEN Written(s, [View(s) EXCEPT !.readings = UpsertAll(@, rows)])
                      ELSE conn
    /\ IF idx[s] < Len(Workbooks[upl[s].bytes].sheets)
       THEN /\ idx' = [idx EXCEPT ![s] = @ + 1]
            /\ pc' = [pc EXCEPT ![s] = "sheet"]
       ELSE /\ idx' = [idx EXCEPT ![s] = 0]
            /\ pc' = [pc EXCEPT ![s] = "record"]
    /\ cid' = [cid EXCEPT ![s] = 0]
    /\ UNCHANGED <<path, resets, store, upl, sel, out, uploads, ingested, latest, dup>>

\* line 84: INSERT INTO files(name, sha256)
RecordFile(s) ==
    /\ pc[s] = "record"
    /\ LockFree(s)
    /\ LET r == InsertFile(View(s), upl[s].name, file_sha256(upl[s].bytes))
       IN  IF ~r.ok
           THEN Rollback(s, "IntegrityError: UNIQUE constraint failed: files.sha256")
           ELSE /\ conn' = Written(s, r.db)
                /\ pc' = [pc EXCEPT ![s] = "commit"]
                /\ UNCHANGED <<path, resets, store, upl, idx, cid, sel, out, uploads,
                               ingested, latest, dup>>

\* a write statement that finds the lock held by another connection for
\* longer than the busy timeout raises OperationalError
Busy(s) ==
    /\ pc[s] \in {"insert_contract", "insert_readings", "record"}
    /\ pc[s] = "insert_readings" => Len(LongRows(cid[s], Sheet(s))) > 0
    /\ ~LockFree(s)
    /\ Rollback(s, "OperationalError: database is locked")

\* line 85: return True leaves the with block, which commits
Commit(s) ==
    /\ pc[s] = "commit"
    /\ conn' = [conn EXCEPT ![s] = NoConn]
    /\ store' = Unlinked([store EXCEPT ![conn[s].ino] = View(s)], conn', path)
    /\ out' = [out EXCEPT ![s] = IngestOut(s, "Ingested", "")]
    /\ pc' = [pc EXCEPT ![s] = "list_contracts"]
    /\ upl' = [upl EXCEPT ![s] = NoUpload]
    /\ dup' = [dup EXCEPT ![s] = FALSE]
    /\ IF conn[s].ino = path
       THEN /\ ingested' = ingested \cup {upl[s]}
            /\ latest' = {x \in latest : \A y \in Supplied(upl[s].bytes) : ~SameTriple(x, y)}
                            \cup Supplied(upl[s].bytes)
       ELSE UNCHANGED <<ingested, latest>>
    /\ UNCHANGED <<path, resets, idx, cid, sel, uploads>>

\* a query raised: the exception ends the script run
QueryRaised(s, op) ==
    /\ out' = [out EXCEPT ![s] = [op |-> op, res |-> "Raised",
                                  val |-> "OperationalError: no such table"]]
    /\ pc' = [pc EXCEPT ![s] = "idle"]
    /\ sel' = [sel EXCEPT ![s] = NoSel]

\* line 129, list_contracts(): init_db(), then the SELECT on a connection of
\* its own; st.stop() when the result is empty, else the selectbox picks one
ListContracts(s) ==
    /\ pc[s] = "list_contracts"
    /\ store' = [get_conn(store) EXCEPT ![resets + 1] = init_db(@)]
    /\ path' = resets + 1
    /\ LET rows == SelectContracts(init_db(IF path = 0 THEN EmptyDb ELSE Committed(path)))
       IN  /\ out' = [out EXCEPT ![s] = [op |-> "list_contracts", res |-> "ok",
                                         val |-> [i \in 1..Len(rows) |->
                                                    <<rows[i].id, rows[i].contract_no>>]]]
           /\ IF Len(rows) = 0
              THEN /\ pc' = [pc EXCEPT ![s] = "idle"]
                   /\ sel' = [sel EXCEPT ![s] = NoSel]
              ELSE /\ pc' = [pc EXCEPT ![s] = "list_dates"]
                   /\ \E i \in 1..Len(rows) :
                         sel' = [sel EXCEPT ![s] = [id |-> rows[i].id, day |-> <<>>]]
    /\ UNCHANGED <<resets, conn, upl, idx, cid, uploads, ingested, latest, dup>>

\* lines 141 and 162, list_dates(sel_contract["id"]): no init_db(); the
\* date selectbox picks one of the dates
ListDates(s) ==
    /\ pc[s] = "list_dates"
    /\ store' = get_conn(store)
    /\ path' = resets + 1
    /\ LET db == IF path = 0 THEN EmptyDb ELSE Committed(path)
           rows == SelectDates(db, sel[s].id)
       IN  IF ~db.tables
           THEN QueryRaised(s, "list_dates")
           ELSE /\ out' = [out EXCEPT ![s] = [op |-> "list_dates", res |-> "ok",
                                              val |-> rows]]
                /\ IF Len(rows) = 0
                   THEN /\ pc' = [pc EXCEPT ![s] = "admin"]
                        /\ sel' = [sel EXCEPT ![s] = NoSel]
                   ELSE /\ pc' = [pc EXCEPT ![s] = "get_series"]
                        /\ \E i \in 1..Len(rows) :
                              sel' = [sel EXCEPT ![s].day = rows[i]]
    /\ UNCHANGED <<resets, conn, upl, idx, cid, uploads, ingested, latest, dup>>

\* lines 146 and 181, get_series(sel_contract["id"], day_sel)
GetSeries(s) ==
    /\ pc[s] = "get_series"
    /\ store' = get_conn(store)
    /\ path' = resets + 1
    /\ LET db == IF path = 0 THEN EmptyDb ELSE Committed(path)
           rows == SelectSeries(db, sel[s].id, sel[s].day)
       IN  IF ~db.tables
           THEN QueryRaised(s, "get_series")
           ELSE /\ out' = [out EXCEPT ![s] =
                             [op |-> "get_series", res |-> "ok",
                              val |-> [id |-> sel[s].id, ymd |-> sel[s].day,
                                       times |-> [i \in 1..Len(rows) |-> rows[i].time],
                                       vals |-> [i \in 1..Len(rows) |-> rows[i].kwh]]]]
                /\ pc' = [pc EXCEPT ![s] = "admin"]
                /\ sel' = [sel EXCEPT ![s] = NoSel]
    /\ UNCHANGED <<resets, conn, upl, idx, cid, uploads, ingested, latest, dup>>

\* lines 193-197: the three counts of the DB admin tab; the run ends there
\* unless "Clear ALL data" was pressed
Admin(s) ==
    /\ pc[s] = "admin"
    /\ store' = get_conn(store)
    /\ path' = resets + 1
    /\ LET db == IF path = 0 THEN EmptyDb ELSE Committed(path)
       IN  IF ~db.tables
           THEN QueryRaised(s, "counts")
           ELSE /\ out' = [out EXCEPT ![s] =
                             [op |-> "counts", res |-> "ok",
                              val |-> <<Cardinality(db.files), Cardinality(db.contracts),
                                        Cardinality(db.readings)>>]]
                /\ \E pressed \in BOOLEAN :
                      pc' = [pc EXCEPT ![s] = IF pressed THEN "clear" ELSE "idle"]
                /\ UNCHANGED sel
    /\ UNCHANGED <<resets, conn, upl, idx, cid, uploads, ingested, latest, dup>>

\* mutant of ClearAll: the file is replaced by one that keeps the ledger
ClearAllKeepsLedger(s) ==
    /\ pc[s] = "clear"
    /\ path # 0 => resets < MaxResets
    /\ IF path = 0
       THEN UNCHANGED <<path, resets, store, ingested, latest, dup>>
       ELSE /\ path' = resets + 2
            /\ resets' = resets + 1
            /\ store' = [Unlinked(store, conn, 0) EXCEPT ![resets + 2] =
                            [EmptyDb EXCEPT !.tables = TRUE,
                                            !.files = store[path].files,
                                            !.seqF = store[path].seqF]]
            /\ ingested' = {}
            /\ latest' = {}
            /\ dup' = [q \in Sessions |-> FALSE]
    /\ pc' = [pc EXCEPT ![s] = "idle"]
    /\ UNCHANGED <<conn, upl, idx, cid, sel, out, uploads>>

\* lines 202-204: os.remove(DB_PATH); connections that have the file open
\* keep it, every later get_conn() finds no file.  Without a file os.remove
\* raises FileNotFoundError, and the run ends as it would have anyway.
ClearAll(s) ==
    /\ pc[s] = "clear"
    /\ path # 0 => resets < MaxResets
    /\ IF path = 0
       THEN UNCHANGED <<path, resets, store, ingested, latest, dup>>
       ELSE /\ path' = 0
            /\ resets' = resets + 1
            /\ store' = Unlinked(store, conn, 0)
            /\ ingested' = {}
            /\ latest' = {}
            /\ dup' = [q \in Sessions |-> FALSE]
    /\ pc' = [pc EXCEPT ![s] = "idle"]
    /\ UNCHANGED <<conn, upl, idx, cid, sel, out, uploads>>

Next ==
    \E s \in Sessions :
        \/ Upload(s)
        \/ NoFile(s)
        \/ IngestInitDb(s)
        \/ IngestConnect(s)
        \/ Gate(s)
        \/ ReadSheet(s)
        \/ EnsureInsert(s)
        \/ InsertReadings(s)
        \/ RecordFile(s)
        \/ Busy(s)
        \/ Commit(s)
        \/ ListContracts(s)
        \/ ListDates(s)
        \/ GetSeries(s)
        \/ Admin(s)
        \/ ClearAll(s)

Spec == Init /\ [][Next]_vars

(***************************************************************************)
(* Properties                                                              *)
(***************************************************************************)
\* the store a caller finds at DB_PATH
Current == IF path = 0 THEN EmptyDb ELSE store[path]

\* its SourceFile, Contract and Reading records
Logical(db) == <<db.files, db.contracts, db.readings>>

\* every database content there is: the files, and the uncommitted content
\* of the open transactions
AllDbs == {store[i] : i \in Inodes} \cup {conn[s].work : s \in {q \in Sessions : conn[q].tx}}

\* the readings of db with the contract's identifier in place of its key
Joined(db) ==
    {[contract_no |-> c.contract_no, ymd |-> r.ymd, time |-> r.time, kwh |-> r.kwh] :
        <<c, r>> \in {x \in db.contracts \X db.readings : x[1].id = x[2].contract_id}}

IngestPcs == {"init_db", "get_conn", "gate", "sheet", "insert_contract",
              "insert_readings", "record", "commit"}

\* session s takes a step
Steps(s) == pc'[s] # pc[s]

\* C1 (dedup idempotence): an ingest of bytes that an earlier ingest, under
\* whatever name, has returned Ingested for, with no reset since, returns
\* Skipped, no step of it changes a record of the store, and the store keeps
\* exactly one SourceFile record for the digest, under the first name.
C1_Skips ==
    \A s \in Sessions : out[s].op = "ingest" /\ out[s].val.dup => out[s].res = "Skipped"
C1_OneRecord ==
    \A r \in ingested :
        /\ Cardinality({f \in Current.files : f.sha256 = file_sha256(r.bytes)}) = 1
        /\ \E f \in Current.files : f.sha256 = file_sha256(r.bytes) /\ f.name = r.name
C1_StoreKept ==
    \A s \in Sessions : dup[s] /\ Steps(s) => Logical(Current)' = Logical(Current)
C1_DedupIdempotence == [](C1_Skips /\ C1_OneRecord) /\ [][C1_StoreKept]_vars

\* C1 witness: the same bytes were ingested as n1 and then skipped as n2
C1_Witness ==
    \E s \in Sessions :
        /\ out[s].op = "ingest" /\ out[s].val.dup /\ out[s].res = "Skipped"
        /\ out[s].val.name = "n2"
        /\ [bytes |-> out[s].val.bytes, name |-> "n1"] \in ingested
        /\ Current.readings # {}

\* C2 (atomic ingest): no step of an ingest before its commit, the failing
\* step included, changes a record of the store; so the store holds the
\* ledger entries, contracts and readings of the ingests that returned
\* Ingested and nothing of a failed attempt, and an ingest is Skipped only
\* for bytes that an ingest has returned Ingested for.
C2_NothingBeforeCommit ==
    \A s \in Sessions :
        pc[s] \in IngestPcs \ {"commit"} /\ Steps(s) => Logical(Current)' = Logical(Current)
C2_OnlyWholeIngests ==
    /\ {f.sha256 : f \in Current.files} = {file_sha256(r.bytes) : r \in ingested}
    /\ {c.contract_no : c \in Current.contracts}
          = UNION {SheetNames(r.bytes) : r \in ingested}
    /\ Joined(Current) = latest
C2_RetryIsNew ==
    \A s \in Sessions :
        pc[s] = "gate" /\ Steps(s) /\ out'[s].res = "Skipped" /\ conn[s].ino = path
            => \E r \in ingested : r.bytes = upl[s].bytes
C2_AtomicIngest ==
    []C2_OnlyWholeIngests /\ [][C2_NothingBeforeCommit /\ C2_RetryIsNew]_vars

\* C2 witness: an ingest failed after it had written, the store holds none
\* of it
C2_Witness ==
    \E s \in Sessions :
        /\ out[s].op = "ingest" /\ out[s].res = "Raised" /\ out[s].val.wrote
        /\ out[s].val.bytes = 4 /\ out[s].val.atPath
        /\ path # 0 /\ Current.tables
        /\ NameC \notin {c.contract_no : c \in Current.contracts}

\* C3 (upsert uniqueness, last write wins): no database content holds two
\* readings with the same contract, date and time slot, and the readings of
\* the store are, triple by triple, the values of the most recent ingest
\* that returned Ingested and contained the triple.
C3_UpsertLastWriteWins ==
    /\ \A db \in AllDbs : \A x, y \in db.readings :
          x.contract_id = y.contract_id /\ x.ymd = y.ymd /\ x.time = y.time => x = y
    /\ \A x \in Joined(Current) : \E y \in latest : SameTriple(x, y) /\ x.kwh = y.kwh
    /\ \A y \in latest : \E x \in Joined(Current) : SameTriple(x, y)

\* C3 witness: W1, then W2 overwrote 2023-01-16 00:00:00 of contract A
C3_Witness ==
    /\ {r.bytes : r \in ingested} = {1, 2}
    /\ [contract_no |-> NameA, ymd |-> D16, time |-> T0000, kwh |-> 30] \in Joined(Current)
    /\ Cardinality(Current.readings) = 4

\* C4 (reader isolation): what a query reads at any moment, an ingest in
\* flight or not, holds for each file either its ledger entry with all its
\* contracts and readings or nothing that only it supplies; and every row a
\* query returns is a committed row of the store.
Visible == IF path = 0 THEN EmptyDb ELSE Committed(path)
Ledger(db) == {b \in Bytes : \E f \in db.files : f.sha256 = file_sha256(b)}
C4_WholeFiles ==
    /\ \A b \in Ledger(Visible) :
          /\ SheetNames(b) \subseteq {c.contract_no : c \in Visible.contracts}
          /\ \A y \in Supplied(b) : \E x \in Joined(Visible) : SameTriple(x, y)
    /\ \A c \in Visible.contracts : \E b \in Ledger(Visible) : c.contract_no \in SheetNames(b)
    /\ \A r \in Visible.readings : \E b \in Ledger(Visible) :
          \E y \in Supplied(b) : \E x \in Joined(Visible) :
              x.ymd = r.ymd /\ x.time = r.time /\ x.kwh = r.kwh /\ SameTriple(x, y)
C4_CommittedRows ==
    \A s \in Sessions :
        /\ pc[s] = "list_contracts" /\ Steps(s) =>
              \A i \in 1..Len(out'[s].val) :
                  [id |-> out'[s].val[i][1], contract_no |-> out'[s].val[i][2]]
                      \in Current'.contracts
        /\ pc[s] = "list_dates" /\ Steps(s) /\ out'[s].res = "ok" =>
              \A i \in 1..Len(out'[s].val) :
                  \E r \in Current'.readings :
                      r.contract_id = sel[s].id /\ r.ymd = out'[s].val[i]
        /\ pc[s] = "get_series" /\ Steps(s) /\ out'[s].res = "ok" =>
              \A i \in 1..Len(out'[s].val.times) :
                  [contract_id |-> sel[s].id, ymd |-> sel[s].day,
                   time |-> out'[s].val.times[i], kwh |-> out'[s].val.vals[i]]
                      \in Current'.readings
        /\ pc[s] = "admin" /\ Steps(s) /\ out'[s].res = "ok" =>
              out'[s].val = <<Cardinality(Current'.files), Cardinality(Current'.contracts),
                              Cardinality(Current'.readings)>>
C5_OnePerDigest ==
    \A db \in AllDbs : \A f, g \in db.files : f.sha256 = g.sha256 \/ f.id = g.id => f = g
C5_StoreRefuses ==
    \A s \in Sessions :
        /\ pc[s] = "record" /\ Steps(s)
        /\ \E f \in View(s).files : f.sha256 = file_sha256(upl[s].bytes)
        => /\ out'[s].res = "Raised"
           /\ Logical(Current)' = Logical(Current)
C5_DigestUniqueness == []C5_OnePerDigest /\ [][C5_StoreRefuses]_vars

\* C5 witness: two ingests of the same bytes both passed the gate; one is
\* recorded, the other was refused by the UNIQUE constraint
C5_Witness ==
    \E s \in Sessions :
        /\ out[s].op = "ingest" /\ out[s].res = "Raised" /\ out[s].val.atPath
        /\ out[s].val.err = "IntegrityError: UNIQUE constraint failed: files.sha256"
        /\ Cardinality({f \in Current.files :
                          f.sha256 = file_sha256(out[s].val.bytes)}) = 1

\* C6 (ensureContract): no database content holds two contracts with one
\* identifier or one key; when ensure_contract returns, the key it returns is
\* the key of the one contract with the identifier, and it has created that
\* contract if there was none and nothing otherwise.
C6_OnePerIdentifier ==
    \A db \in AllDbs : \A c, d \in db.contracts :
        c.contract_no = d.contract_no \/ c.id = d.id => c = d
C6_LookupOrCreate ==
    \A s \in Sessions :
        pc[s] \in {"sheet", "insert_contract"} /\ pc'[s] = "insert_readings" =>
            LET name == Sheet(s).name
                before == View(s).contracts
                after == View(s)'.contracts
                made == [id |-> cid'[s], contract_no |-> name]
            IN  /\ {c \in after : c.contract_no = name} = {made}
                /\ IF \E c \in before : c.contract_no = name
                   THEN after = before
                   ELSE after = before \cup {made} /\ \A c \in before : c.id # made.id
C6_EnsureContract == []C6_OnePerIdentifier /\ [][C6_LookupOrCreate]_vars

\* C6 witness: W1 created contract A; the ingest of W2 has created contract B
\* and then got the key of A back, creating nothing
C6_Witness ==
    \E s \in Sessions :
        /\ pc[s] = "insert_readings" /\ upl[s].bytes = 2 /\ idx[s] = 2
        /\ \E r \in ingested : r.bytes = 1
        /\ \E c \in Current.contracts : c.id = cid[s] /\ c.contract_no = NameA
        /\ Cardinality(Current.contracts) = 1
        /\ Cardinality(View(s).contracts) = 2

\* C7 (empty-query safety): get_series never raises, and returns two empty
\* lists when the store has no reading for the key and the date.
C7_EmptyQuerySafety ==
    [][\A s \in Sessions :
          pc[s] = "get_series" /\ Steps(s) =>
              /\ out'[s].res = "ok"
              /\ (\A r \in Current.readings :
                      ~(r.contract_id = sel[s].id /\ r.ymd = sel[s].day))
                  => out'[s].val.times = <<>> /\ out'[s].val.vals = <<>>]_vars

\* C8 (failure reporting): no ingest call ends with an exception; each
\* failure comes back as a status and a message.
C8_FailureReporting ==
    \A s \in Sessions : out[s].op = "ingest" => out[s].res \in {"Ingested", "Skipped"}

\* C9 (queries are read-only): list_contracts, list_dates and get_series
\* change no SourceFile, Contract or Reading record, of the store at DB_PATH
\* or of any other file, and no connection.
C9_QueriesReadOnly ==
    [][\A s \in Sessions :
          pc[s] \in {"list_contracts", "list_dates", "get_series"} /\ Steps(s) =>
              /\ Logical(Current)' = Logical(Current)
              /\ \A i \in Inodes : Logical(store[i])' = Logical(store[i])
              /\ conn' = conn]_vars

\* C9 witness: the three queries have run on a store that holds readings
C9_Witness ==
    \E s \in Sessions :
        /\ out[s].op = "get_series" /\ out[s].res = "ok"
        /\ Len(out[s].val.times) = 2
        /\ Cardinality(Current.readings) = 4 /\ Cardinality(Current.files) = 1

\* C10 (round trip): for every contract and date of the store, get_series
\* returns one pair per time slot ingested for them, with the value of the
\* cell, ascending by time slot; list_dates returns the ingested dates of
\* the contract once each, ascending.  For W1 alone that is, literally,
\* 2023-01-15: 00:00:00 11, 00:30:00 40 and 2023-01-16: 00:00:00 15, 00:30:00 0.
Ascending(q) == \A i \in 1..(Len(q) - 1) : StrLess(q[i], q[i + 1])
ValidDates(b) ==
    CASE b = 1 -> {<<NameA, D15>>, <<NameA, D16>>}
      [] b = 2 -> {<<NameA, D16>>}
      [] b = 4 -> {<<NameC, D15>>}
      [] b = 5 -> {<<NameA, D16>>}
      [] b = 6 -> {<<NameC, D15>>}
      [] OTHER -> {}
C11_NoInvalidDate ==
    \A c \in Current.contracts :
        LET dates == SelectDates(Current, c.id)
        IN  \A i \in 1..Len(dates) :
                \E b \in Ledger(Current) : <<c.contract_no, dates[i]>> \in ValidDates(b)
C11_ValidRowsStored ==
    \A b \in Ledger(Current) : \A v \in ValidDates(b) :
        \E c \in Current.contracts :
            /\ c.contract_no = v[1]
            /\ \E i \in 1..Len(SelectDates(Current, c.id)) :
                  SelectDates(Current, c.id)[i] = v[2]
C11_InvalidDateFiltering == C11_NoInvalidDate /\ C11_ValidRowsStored

\* C12 (non-numeric value coercion): the cell "x" of W1, in the time-slot
\* column 00:30:00 of the row of 2023-01-16, is stored as the one reading of
\* contract A for that date and slot, with the value 0; insert_readings does
\* not raise on the sheet.
C12_Zero(db) ==
    \E c \in db.contracts :
        /\ c.contract_no = NameA
        /\ {r \in db.readings : r.contract_id = c.id /\ r.ymd = D16 /\ r.time = T0030}
              = {[contract_id |-> c.id, ymd |-> D16, time |-> T0030, kwh |-> 0]}
C12_Stored == \A db \in AllDbs : 1 \in Ledger(db) => C12_Zero(db)
C12_NoFailure ==
    \A s \in Sessions :
        pc[s] = "insert_readings" /\ Steps(s) /\ upl[s].bytes = 1 /\ LockFree(s) =>
            /\ pc'[s] = "record"
            /\ C12_Zero(View(s)')
C12_NonNumericCoercion == []C12_Stored /\ [][C12_NoFailure]_vars

\* C12 witness: W1 was ingested and the store holds 0 for A, 2023-01-16,
\* 00:30:00
C12_Witness ==
    \E s \in Sessions :
        /\ out[s].op = "ingest" /\ out[s].res = "Ingested"
        /\ out[s].val.bytes = 1 /\ out[s].val.atPath
        /\ [contract_no |-> NameA, ymd |-> D16, time |-> T0030, kwh |-> 0]
              \in Joined(Current)

\* C13 (per-sheet graceful degradation): for a sheet without the date column
\* (the first of W2) or without a time-slot column (the first of W5),
\* insert_readings runs no statement and raises nothing, whoever holds the
\* lock, and the loop goes on to the next sheet; so wherever W2 is in the
\* ledger, contract B has no reading and contract A has the reading of W2's
\* second sheet, and an ingest of W2 or W5 that raised did so on a write
\* that was refused, not on a sheet.
NoRowSheets == {<<2, 1>>, <<5, 1>>}
WriteRefused == {"OperationalError: no such table: files",
                 "OperationalError: database is locked",
                 "IntegrityError: UNIQUE constraint failed: contracts.contract_no",
                 "IntegrityError: UNIQUE constraint failed: files.sha256"}
C13_SheetSkipped ==
    \A s \in Sessions :
        pc[s] = "insert_readings" /\ Steps(s) /\ <<upl[s].bytes, idx[s]>> \in NoRowSheets =>
            /\ conn' = conn
            /\ pc'[s] = "sheet"
            /\ idx'[s] = idx[s] + 1
            /\ upl'[s] = upl[s]
C13_OthersStored ==
    \A db \in AllDbs : 2 \in Ledger(db) =>
        /\ \E c \in db.contracts :
              /\ c.contract_no = NameB
              /\ \A r \in db.readings : r.contract_id # c.id
        /\ \E x \in Joined(db) : x.contract_no = NameA /\ x.ymd = D16 /\ x.time = T0000
C13_Completes ==
    \A s \in Sessions :
        out[s].op = "ingest" /\ out[s].val.bytes \in {2, 5} /\ out[s].res = "Raised" =>
            out[s].val.err \in WriteRefused
C13_GracefulDegradation == [](C13_OthersStored /\ C13_Completes) /\ [][C13_SheetSkipped]_vars

\* C13 witness: the ingest of W2 returned Ingested; contract B has no
\* reading, contract A the one of W2's second sheet
C13_Witness ==
    \E s \in Sessions :
        /\ out[s].op = "ingest" /\ out[s].res = "Ingested"
        /\ out[s].val.bytes = 2 /\ out[s].val.atPath
        /\ \E c \in Current.contracts :
              c.contract_no = NameB /\ \A r \in Current.readings : r.contract_id # c.id
        /\ [contract_no |-> NameA, ymd |-> D16, time |-> T0000, kwh |-> 30]
              \in Joined(Current)

\* C14 (referential integrity): in every database content, committed or in
\* a transaction, the contract_id of every reading is the id of exactly one
\* contract.
C14_ReferentialIntegrity ==
    \A db \in AllDbs : \A r \in db.readings :
        Cardinality({c \in db.contracts : c.id = r.contract_id}) = 1

\* C14 witness: W2 was ingested: contract B has key 1, contract A key 2 and
\* the reading belongs to key 2
C14_Witness ==
    /\ [id |-> 1, contract_no |-> NameB] \in Current.contracts
    /\ [id |-> 2, contract_no |-> NameA] \in Current.contracts
    /\ Current.readings # {}
    /\ \A r \in Current.readings : r.contract_id = 2

\* C15 (records persist until reset): a step that does not remove the file
\* at DB_PATH keeps every SourceFile record and every Contract record of the
\* store as it is (name, digest, identifier, key), and keeps a reading for
\* every contract, date and time slot that had one.
C15_Kept ==
    resets' = resets =>
        /\ Current.files \subseteq Current'.files
        /\ Current.contracts \subseteq Current'.contracts
        /\ \A r \in Current.readings : \E q \in Current'.readings :
              q.contract_id = r.contract_id /\ q.ymd = r.ymd /\ q.time = r.time
C15_PersistUntilReset == [][C15_Kept]_vars

\* C15 witness: W1 was ingested, then W2: the records of W1 are there, the
\* value W2 overwrote has changed
C15_Witness ==
    /\ [id |-> 1, name |-> "n1", sha256 |-> file_sha256(1)] \in Current.files
    /\ [id |-> 2, name |-> "n1", sha256 |-> file_sha256(2)] \in Current.files
    /\ [id |-> 1, contract_no |-> NameA] \in Current.contracts
    /\ [contract_id |-> 1, ymd |-> D15, time |-> T0000, kwh |-> 11] \in Current.readings
    /\ [contract_id |-> 1, ymd |-> D16, time |-> T0000, kwh |-> 30] \in Current.readings
    /\ Cardinality(Current.readings) = 4

\* C16 (concurrent ingests of distinct files): the committed content of
\* every file holds, for each workbook, its ledger entry with all its
\* contracts and readings or nothing that only it supplies; and what a commit
\* publishes is the committed content of that moment plus the whole batch of
\* its workbook: ledger entry, contracts of all sheet names, and readings,
\* with nothing of another ingest lost or taken along.
C16_Whole(db) ==
    /\ \A b \in Ledger(db) :
          /\ SheetNames(b) \subseteq {c.contract_no : c \in db.contracts}
          /\ \A y \in Supplied(b) : \E x \in Joined(db) : SameTriple(x, y)
    /\ \A c \in db.contracts : \E b \in Ledger(db) : c.contract_no \in SheetNames(b)
    /\ \A x \in Joined(db) : \E b \in Ledger(db) : \E y \in Supplied(b) :
          SameTriple(x, y) /\ x.kwh = y.kwh
    /\ Cardinality(Joined(db)) = Cardinality(db.readings)
C16_CommittedStates == \A i \in Inodes : C16_Whole(store[i])
C16_CommitAddsBatch ==
    \A s \in Sessions :
        pc[s] = "commit" /\ Steps(s) =>
            LET before == store[conn[s].ino]
                after == View(s)
                b == upl[s].bytes
            IN  /\ \E f \in after.files :
                      /\ f.sha256 = file_sha256(b) /\ f.name = upl[s].name
                      /\ f \notin before.files
                      /\ after.files = before.files \cup {f}
                /\ before.contracts \subseteq after.contracts
                /\ {c.contract_no : c \in after.contracts}
                      = {c.contract_no : c \in before.contracts} \cup SheetNames(b)
                /\ Joined(after)
                      = {x \in Joined(before) : \A y \in Supplied(b) : ~SameTriple(x, y)}
                           \cup Supplied(b)
                /\ conn[s].ino = path => Logical(Current') = Logical(after)
C16_ConcurrentIngests == []C16_CommittedStates /\ [][C16_CommitAddsBatch]_vars

\* C16 witness: the ingest of W1 committed while the ingest of W2 by the
\* other session was past its gate; both have returned Ingested and the
\* store holds both batches
C16_Witness ==
    \E s, q \in Sessions :
        /\ s # q
        /\ out[s].op = "ingest" /\ out[s].res = "Ingested" /\ out[s].val.bytes = 1
        /\ out[s].val.overlap /\ out[s].val.atPath
        /\ out[q].op = "ingest" /\ out[q].res = "Ingested" /\ out[q].val.bytes = 2
        /\ out[q].val.atPath
        /\ Ledger(Current) = {1, 2}
        /\ Cardinality(Current.readings) = 4 /\ Cardinality(Current.contracts) = 2

\* C17 (unconditional ledger write): W5 is readable and none of its sheets
\* gives a reading.  insert_readings writes nothing for its sheets and does
\* not raise; the INSERT into files is made all the same; the commit
\* publishes the ledger entry and the contracts A and B without any new
\* reading, and the call returns Ingested; an ingest of the same bytes that
\* finds the entry returns Skipped.
C17_NoReading ==
    \A s \in Sessions :
        pc[s] = "insert_readings" /\ Steps(s) /\ upl[s].bytes = 5 =>
            conn' = conn /\ pc'[s] = (IF idx[s] = 1 THEN "sheet" ELSE "record")
C17_LedgerWritten ==
    \A s \in Sessions :
        /\ pc[s] = "record" /\ Steps(s) /\ upl[s].bytes = 5
        /\ LockFree(s) /\ 5 \notin Ledger(View(s))
        => /\ pc'[s] = "commit"
           /\ 5 \in Ledger(View(s)')
           /\ View(s)'.readings = View(s).readings
C17_Ingested ==
    \A s \in Sessions :
        pc[s] = "commit" /\ Steps(s) /\ upl[s].bytes = 5 =>
            /\ out'[s].res = "Ingested"
            /\ 5 \in Ledger(View(s))
            /\ {NameA, NameB} \subseteq {c.contract_no : c \in View(s).contracts}
            /\ View(s).readings = store[conn[s].ino].readings
            /\ conn[s].ino = path => Logical(Current') = Logical(View(s))
C17_ThenSkipped ==
    \A s \in Sessions :
        pc[s] = "gate" /\ Steps(s) /\ upl[s].bytes = 5 /\ 5 \in Ledger(View(s)) =>
            out'[s].res = "Skipped" /\ Logical(Current') = Logical(Current)
C17_Recorded ==
    \A r \in ingested : r.bytes = 5 =>
        /\ 5 \in Ledger(Current)
        /\ {NameA, NameB} \subseteq {c.contract_no : c \in Current.contracts}
C17_UnconditionalLedger ==
    /\ []C17_Recorded
    /\ [][C17_NoReading /\ C17_LedgerWritten /\ C17_Ingested /\ C17_ThenSkipped]_vars

\* C17 witness: W5 was ingested and then skipped; the store holds its ledger
\* entry, the contracts A and B and no reading
C17_Witness ==
    \E s \in Sessions :
        /\ out[s].op = "ingest" /\ out[s].res = "Skipped" /\ out[s].val.bytes = 5
        /\ out[s].val.dup /\ out[s].val.atPath
        /\ Ledger(Current) = {5}
        /\ {c.contract_no : c \in Current.contracts} = {NameA, NameB}
        /\ Current.readings = {}

\* C18 (duplicate keys within one sheet): the sheet of W1 has 2023-01-15 in
\* its second row (00:00:00 10, 00:30:00 20) and in its fourth (00:00:00 11,
\* 00:30:00 40).  insert_readings does not raise on it, and every database
\* content that has W1 in its ledger holds, for contract A and that date, one
\* reading per time slot, with the values of the fourth row.
C18_LaterRow(db) ==
    \E c \in db.contracts :
        /\ c.contract_no = NameA
        /\ {r \in db.readings : r.contract_id = c.id /\ r.ymd = D15}
              = {[contract_id |-> c.id, ymd |-> D15, time |-> T0000, kwh |-> 11],
                 [contract_id |-> c.id, ymd |-> D15, time |-> T0030, kwh |-> 40]}
C18_OnePerSlot == \A db \in AllDbs : 1 \in Ledger(db) => C18_LaterRow(db)
C18_NoFailure ==
    \A s \in Sessions :
        pc[s] = "insert_readings" /\ Steps(s) /\ upl[s].bytes = 1 /\ LockFree(s) =>
            /\ conn'[s].tx
            /\ C18_LaterRow(View(s)')
C18_DuplicateKeys == []C18_OnePerSlot /\ [][C18_NoFailure]_vars

\* C18 witness: W1 alone was ingested; 2023-01-15 of contract A has the two
\* readings 11 and 40
C18_Witness ==
    \E s \in Sessions :
        /\ out[s].op = "ingest" /\ out[s].res = "Ingested"
        /\ out[s].val.bytes = 1 /\ out[s].val.atPath
        /\ Ledger(Current) = {1}
        /\ {<<x.time, x.kwh>> : x \in {y \in Joined(Current) : y.ymd = D15}}
              = {<<T0000, 11>>, <<T0030, 40>>}

\* C19 (full reset): "Clear ALL data" leaves no file at DB_PATH, so the store
\* has no SourceFile, Contract or Reading record, and has none until an
\* ingest commits: list_contracts returns nothing and the counts are 0, 0, 0.
\* After a reset the gate of an ingest of any bytes, ingested before the reset
\* or not, when no ingest of them has committed since, finds no ledger entry
\* and goes on to read the workbook; its commit returns Ingested.
C19_Emptied ==
    \A s \in Sessions :
        pc[s] = "clear" /\ Steps(s) => path' = 0 /\ Logical(Current') = Logical(EmptyDb)
C19_EmptyUntilIngest == ingested = {} => Logical(Current) = Logical(EmptyDb)
C19_QueriesEmpty ==
    \A s \in Sessions :
        /\ resets > 0 /\ ingested = {} /\ pc[s] = "list_contracts" /\ Steps(s)
              => out'[s].res = "ok" /\ out'[s].val = <<>> /\ pc'[s] = "idle"
        /\ resets > 0 /\ ingested = {} /\ pc[s] = "admin" /\ Steps(s) /\ out'[s].res = "ok"
              => out'[s].val = <<0, 0, 0>>
C19_NewAgain ==
    \A s \in Sessions :
        /\ resets > 0 /\ conn[s].ino = path
        /\ \A r \in ingested : r.bytes # upl[s].bytes
        => /\ pc[s] = "gate" /\ Steps(s) /\ View(s).tables /\ Workbooks[upl[s].bytes].valid
                 => pc'[s] = "sheet"
           /\ pc[s] = "commit" /\ Steps(s) =>
                 /\ out'[s].res = "Ingested"
                 /\ upl[s] \in ingested'
                 /\ upl[s].bytes \in Ledger(Current')
C19_FullReset ==
    []C19_EmptyUntilIngest /\ [][C19_Emptied /\ C19_QueriesEmpty /\ C19_NewAgain]_vars

\* C19 witness: one session's ingest of W1 returned Ingested into the file
\* then at DB_PATH; the store was cleared; the other session's ingest of W1
\* returned Ingested too, and its ledger entry is the first of the new file
C19_Witness ==
    \E s, q \in Sessions :
        /\ s # q /\ resets = 1
        /\ out[q].op = "ingest" /\ out[q].res = "Ingested"
        /\ out[q].val.bytes = 1 /\ out[q].val.atPath /\ pc[q] = "list_contracts"
        /\ out[s].op = "ingest" /\ out[s].res = "Ingested"
        /\ out[s].val.bytes = 1 /\ out[s].val.atPath /\ ~out[s].val.dup
        /\ Ledger(Current) = {1}
        /\ \E f \in Current.files : f.id = 1 /\ f.sha256 = file_sha256(1)
        /\ Cardinality(Current.readings) = 4

\* C20 (ingest frame): the commit of an ingest, the one step of it that
\* changes the store, keeps every SourceFile and Contract record there was,
\* keeps with its value every reading whose contract, date and time slot the
\* workbook does not supply, in particular every reading of a contract that
\* no sheet of the workbook names, and adds or changes only readings that the
\* workbook supplies.
C20_Frame ==
    \A s \in Sessions :
        pc[s] = "commit" /\ Steps(s) /\ conn[s].ino = path =>
            LET b == upl[s].bytes
                before == Current
                after == Current'
            IN  /\ before.files \subseteq after.files
                /\ before.contracts \subseteq after.contracts
                /\ \A x \in Joined(before) :
                      (\A y \in Supplied(b) : ~SameTriple(x, y)) => x \in Joined(after)
                /\ {x \in Joined(before) : x.contract_no \notin SheetNames(b)}
                      = {x \in Joined(after) : x.contract_no \notin SheetNames(b)}
                /\ Joined(after) \ Joined(before) \subseteq Supplied(b)
                /\ Cardinality(Joined(after)) = Cardinality(after.readings)
C20_IngestFrame == [][C20_Frame]_vars

\* C20 witness: W1 was ingested, then W6, which names contract C alone and
\* supplies 2023-01-15 00:00:00 as W1 does for A: the readings of A are as
\* W1 left them
C20_Witness ==
    \E s \in Sessions :
        /\ out[s].op = "ingest" /\ out[s].res = "Ingested"
        /\ out[s].val.bytes = 6 /\ out[s].val.atPath
        /\ Ledger(Current) = {1, 6}
        /\ [id |-> 1, contract_no |-> NameA] \in Current.contracts
        /\ [id |-> 2, contract_no |-> NameC] \in Current.contracts
        /\ Joined(Current) = Supplied(1) \cup Supplied(6)

====
